---- MODULE Spec2Model ----
(***************************************************************************)
(* Example 6 (PDE) notebook of pykan: sampling of interior and boundary    *)
(* points, the loss closure, the training loop fit(), the symbolic fixing  *)
(* cell, the second fit() and the extraction of the symbolic formula.      *)
(*                                                                         *)
(* Numbers are fixed point.  Coordinates are in tenths (the mesh           *)
(* linspace(-1, 1, 21) is exactly the integers -10..10), sines are scaled  *)
(* by SinScale, so sol_fun, source_fun and the model output are in units   *)
(* of 1/100.  A mean is the sum divided (rounded down) by the row count.   *)
(* alpha = 0.1 is the fraction alphaNum/alphaDen and a weighted loss       *)
(* alpha*p + b is kept as alphaNum*p + alphaDen*b, i.e. in units of        *)
(* 1/alphaDen of the unit of p and b.                                      *)
(***************************************************************************)
EXTENDS Integers, Sequences, FiniteSets, TLC

\* ------------------------------------------------------------------ bounds
NSeeds     == 2      \* number of distinct outcomes of torch.rand explored
MaxTheta   == 1      \* the parameter vector ranges over 0..MaxTheta
MaxClosure == 2      \* closure invocations explored per optimizer.step

\* ------------------------------------------------------- program constants
np_i     == 21
np_b     == 21
rangeLo  == -10      \* ranges[0] = -1, in tenths
rangeHi  == 10       \* ranges[1] =  1, in tenths
steps    == 20
alphaNum == 1        \* alpha = 0.1 = alphaNum / alphaDen
alphaDen == 10
log      == 1
sampling_mode == "random"
history_size  == 10
SinScale == 10       \* fixed-point scale of one sine factor
Pi2Num   == 987      \* pi^2 ~ Pi2Num / Pi2Den
Pi2Den   == 100
RandRes  == 20       \* torch.rand yields k / RandRes, k in 0..RandRes-1

\* ------------------------------------------------------------ arithmetic
\* s[lo] + ... + s[hi], by halves down to runs of seven terms
RECURSIVE SumRange(_, _, _)
SumRange(s, lo, hi) ==
    IF lo > hi THEN 0
    ELSE IF hi - lo = 6
      THEN s[lo] + s[lo + 1] + s[lo + 2] + s[lo + 3] + s[lo + 4] + s[lo + 5]
           + s[hi]
    ELSE IF hi - lo < 6
      THEN s[lo] + SumRange(s, lo + 1, hi)
    ELSE SumRange(s, lo, lo + 7 * ((((hi - lo + 1) \div 7) + 1) \div 2) - 1)
         + SumRange(s, lo + 7 * ((((hi - lo + 1) \div 7) + 1) \div 2), hi)

\* torch.mean of a column s of n values
Mean(n, s) == SumRange(s, 1, n) \div n

\* SinScale * sin(pi * k / 10) for k = 0..19, rounded to the nearest integer
SinTable == <<0, 3, 6, 8, 10, 10, 10, 8, 6, 3,
              0, -3, -6, -8, -10, -10, -10, -8, -6, -3>>

\* torch.sin(torch.pi * t) for t in tenths, scaled by SinScale
SinPi(t) == SinTable[(t % 20) + 1]

\* cos in place of sin for the first coordinate
sol_fun_mut(x) == SinPi(x[1] + 5) * SinPi(x[2])

\* sol_fun = sin(pi x0) sin(pi x1), in hundredths
sol_fun(x) == SinPi(x[1]) * SinPi(x[2])

\* source_fun = -2 pi^2 sin(pi x0) sin(pi x1), in hundredths
source_fun(x) == ((-2 * Pi2Num) * SinPi(x[1]) * SinPi(x[2])) \div Pi2Den

\* ---------------------------------------------------------------- sampling
\* torch.linspace(ranges[0], ranges[1], steps = n), 1-based index k
linspace(lo, hi, n) == [k \in 1..n |-> lo + ((hi - lo) * (k - 1)) \div (n - 1)]

x_mesh == linspace(rangeLo, rangeHi, np_i)
y_mesh == linspace(rangeLo, rangeHi, np_i)

\* torch.meshgrid(x_mesh, y_mesh, indexing = "ij")
X == [i \in 1..Len(x_mesh) |-> [j \in 1..Len(y_mesh) |-> x_mesh[i]]]
Y == [i \in 1..Len(x_mesh) |-> [j \in 1..Len(y_mesh) |-> y_mesh[j]]]

\* M[:, c] for a 1-based column c
Col(M, c) == [i \in 1..Len(M) |-> M[i][c]]

\* helper = lambda X, Y: stack([X.reshape(-1), Y.reshape(-1)]).permute(1, 0)
helper(U, V) == [k \in 1..Len(U) |-> <<U[k], V[k]>>]

xb1 == helper(X[1], Y[1])
\* the first row of X in place of the last one
xb2_mut == helper(X[1], Y[1])
xb2 == helper(X[Len(X)], Y[1])
xb3 == helper(Col(X, 1), Col(Y, 1))
xb4 == helper(Col(X, 1), Col(Y, Len(Y[1])))

\* torch.cat([xb1, xb2, xb3, xb4], dim = 0)
BoundaryPoints == xb1 \o xb2 \o xb3 \o xb4

\* the mesh sample: stack([X.reshape(-1), Y.reshape(-1)]).permute(1, 0)
MeshPoints ==
    [r \in 1..(np_i * np_i) |->
        <<X[((r - 1) \div np_i) + 1][((r - 1) % np_i) + 1],
          Y[((r - 1) \div np_i) + 1][((r - 1) % np_i) + 1]>>]

\* one outcome of torch.rand((np_i**2, 2)): entry (r, c) in 0..RandRes-1
Rand(seed, r, c) == (seed * 7 + r * 13 + c * 5 + r * r + seed * r * c) % RandRes

\* the shift by -1 is forgotten
RandomPoints_mut(seed) ==
    [r \in 1..(np_i * np_i) |->
        <<(Rand(seed, r, 1) * 2 * 10) \div RandRes,
          (Rand(seed, r, 2) * 2 * 10) \div RandRes>>]

\* torch.rand((np_i**2, 2)) * 2 - 1, in tenths
RandomPoints(seed) ==
    [r \in 1..(np_i * np_i) |->
        <<(Rand(seed, r, 1) * 2 * 10) \div RandRes - 10,
          (Rand(seed, r, 2) * 2 * 10) \div RandRes - 10>>]

InteriorPoints(seed) ==
    IF sampling_mode = "mesh" THEN MeshPoints ELSE RandomPoints(seed)

\* ------------------------------------------------------------------- model
\* The activations of a width-[2,2,1] network: <<layer, input, output>>
width == <<2, 2, 1>>
Activations ==
    {<<l, i, j>> : l \in 0..1, i \in 0..1, j \in 0..1} \
        {a \in {<<l, i, j>> : l \in 0..1, i \in 0..1, j \in 0..1} :
            a[2] >= width[a[1] + 1] \/ a[3] >= width[a[1] + 2]}

\* the parameter vectors the optimizer can reach
ParamSet == {[a |-> t, b |-> 1, c |-> t - 1] : t \in 0..MaxTheta}

\* model(x): the network output at one row, in hundredths
ModelFwd(p, x) == p.a * x[1] * x[1] + p.b * x[1] * x[2] + p.c * x[2] * x[2]

\* first derivatives of the output at one row: batch_jacobian(model, x)[:,0,:]
sol_D1_fun(p, x) == <<(2 * p.a * x[1] + p.b * x[2]) * 10,
                      (p.b * x[1] + 2 * p.c * x[2]) * 10>>

\* second derivatives at one row: batch_jacobian(sol_D1_fun, x), in hundredths
sol_D2(p, x) == <<<<200 * p.a, 100 * p.b>>, <<100 * p.b, 200 * p.c>>>>

\* torch.sum(torch.diagonal(sol_D2, dim1=1, dim2=2), dim=1, keepdim=True)
lap(p, x) == sol_D2(p, x)[1][1] + sol_D2(p, x)[2][2]

\* gradient of the loss with respect to the parameters (one number)
GradOf(p, lossv) == ((lossv + p.a) % 7) + 1

\* ------------------------------------------------------------------- state
VARIABLES
    pc,         \* position of the notebook run
    fitNo,      \* 0 before the first fit(), then 1 or 2
    it,         \* the loop variable _ of fit()
    x_i,        \* interior sample, rows <<x, y>> in tenths
    x_b,        \* boundary sample
    model,      \* the KAN: parameters, gradient, grid version, activations
    optimizer,  \* the LBFGS object of the running fit()
    pde_loss,   \* module-level global written by closure
    bc_loss,    \* module-level global written by closure
    needEval,   \* inside optimizer.step: the next thing is a closure call
    nclos,      \* closure invocations made by the running optimizer.step
    lastLoss,   \* value returned by the latest closure invocation
    fitLoss,    \* the local loss of fit() (line 114)
    l2,         \* the local l2 of fit()
    desc,       \* description of the progress bar
    formula,    \* result of model.symbolic_formula
    stages,     \* the stages of the run, in the order they happened
    gridCalls,  \* <<fitNo, it>> of every update_grid_from_samples call
    optSteps,   \* per fit(): number of optimizer.step calls that returned
    fixCalls,   \* arguments of the fix_symbolic calls, in order
    probe       \* one function of the notebook applied on its own: input, output

vars == <<pc, fitNo, it, x_i, x_b, model, optimizer, pde_loss, bc_loss,
          needEval, nclos, lastLoss, fitLoss, l2, desc, formula, stages,
          gridCalls, optSteps, fixCalls, probe>>

Seeds == 1..NSeeds
Undefined == -1      \* a name that has not been assigned (losses are >= 0)

\* model = KAN(width=[2,2,1], grid=5, k=3, ...): random initial parameters
NewModel(p) ==
    [params |-> p, grad |-> 0, grid |-> 0,
     sym |-> [a \in Activations |-> "numeric"]]

\* no function is being applied on its own
NoProbe == [op |-> "none", arg |-> <<>>, done |-> FALSE, out |-> <<>>]

\* the state of the kernel when the first cell starts
InitRun ==
    /\ pc = "cell1"
    /\ fitNo = 0
    /\ it = 0
    /\ x_i = <<>>
    /\ x_b = <<>>
    /\ \E p \in ParamSet : model = NewModel(p)
    /\ optimizer = [id |-> 0, hist |-> 0]
    /\ pde_loss = Undefined
    /\ bc_loss = Undefined
    /\ needEval = FALSE
    /\ nclos = 0
    /\ lastLoss = Undefined
    /\ fitLoss = Undefined
    /\ l2 = Undefined
    /\ desc = <<>>
    /\ formula = <<>>
    /\ stages = <<>>
    /\ gridCalls = {}
    /\ optSteps = [f \in 1..2 |-> 0]
    /\ fixCalls = <<>>

Init == InitRun /\ probe = NoProbe

\* ----------------------------------------------------------------- closure
\* the call is missing: backward() adds to the gradients already held
zero_grad_mut(g) == g

\* optimizer.zero_grad(): the gradients held by the parameters are reset
zero_grad(g) == 0

\* alpha weighs the boundary term instead of the PDE term
LossRecord_mut(m, q) ==
    [pde_loss |-> q[1], bc_loss |-> q[2],
     loss |-> alphaDen * q[1] + alphaNum * q[2],
     grad |-> zero_grad(m.grad)
              + GradOf(m.params, alphaDen * q[1] + alphaNum * q[2])]

\* closure without the interior and boundary means q = <<pde_loss, bc_loss>>:
\* optimizer.zero_grad(), loss = alpha * pde_loss + bc_loss, loss.backward()
\* (which adds the gradient of loss to the gradients held), return loss
LossRecord(m, q) ==
    [pde_loss |-> q[1], bc_loss |-> q[2],
     loss |-> alphaNum * q[1] + alphaDen * q[2],
     grad |-> zero_grad(m.grad)
              + GradOf(m.params, alphaNum * q[1] + alphaDen * q[2])]

\* (lap - source)**2 at one row
PdeResidual(p, x) == (lap(p, x) - source_fun(x)) ^ 2

\* (model(x) - sol_fun(x))**2 at one row
FitResidual(p, x) == (ModelFwd(p, x) - sol_fun(x)) ^ 2

\* pde_loss = torch.mean((lap - source)**2) over the rows of xi
PdeLoss(m, xi) ==
    Mean(Len(xi), [r \in 1..Len(xi) |-> PdeResidual(m.params, xi[r])])

\* bc_loss = torch.mean((bc_pred - bc_true)**2) over the rows of xb
BcLoss(m, xb) ==
    Mean(Len(xb), [r \in 1..Len(xb) |-> FitResidual(m.params, xb[r])])

\* l2 = torch.mean((model(x_i) - sol)**2)
L2Error(m, xi) ==
    Mean(Len(xi), [r \in 1..Len(xi) |-> FitResidual(m.params, xi[r])])

\* The three means are pure functions of the parameters and of the samples.
\* They are tabulated once for the samples the run can draw; Losses looks
\* them up and computes them directly for any other sample.
Samples == [sd \in Seeds |-> InteriorPoints(sd)]

LossTable ==
    [sd \in Seeds |-> [p \in ParamSet |->
        <<PdeLoss([params |-> p], Samples[sd]),
          BcLoss([params |-> p], BoundaryPoints),
          L2Error([params |-> p], Samples[sd])>>]]

\* <<pde_loss, bc_loss, l2>> of model m on the samples xi, xb
Losses(m, xi, xb) ==
    IF xb = BoundaryPoints /\ \E sd \in Seeds : Samples[sd] = xi
      THEN LossTable[CHOOSE sd \in Seeds : Samples[sd] = xi][m.params]
      ELSE <<PdeLoss(m, xi), BcLoss(m, xb), L2Error(m, xi)>>

\* The loss closure of fit(), evaluated on model m and the samples xi, xb
closure(m, xi, xb) == LossRecord(m, Losses(m, xi, xb))

\* ------------------------------------------------------------------- cells
\* cell 1 up to the definition of fit(): sampling of x_i and x_b
Sample ==
    /\ pc = "cell1"
    /\ \E seed \in Seeds : x_i' = InteriorPoints(seed)
    /\ x_b' = BoundaryPoints
    /\ stages' = Append(stages, "sample")
    /\ fitNo' = 1
    /\ pc' = "fit_enter"
    /\ UNCHANGED <<probe, it, model, optimizer, pde_loss, bc_loss, needEval, nclos,
                   lastLoss, fitLoss, l2, desc, formula, gridCalls, optSteps,
                   fixCalls>>

\* the optimizer is built once, outside fit(), and used again by each call
FitEnter_mut ==
    /\ pc = "fit_enter"
    /\ optimizer' = optimizer
    /\ it' = 0
    /\ stages' = Append(stages, "fit_begin")
    /\ pc' = "loop"
    /\ UNCHANGED <<probe, fitNo, x_i, x_b, model, pde_loss, bc_loss, needEval,
                   nclos, lastLoss, fitLoss, l2, desc, formula, gridCalls,
                   optSteps, fixCalls>>

\* fit(): optimizer = LBFGS(model.parameters(), ...); pbar = tqdm(range(steps))
FitEnter ==
    /\ pc = "fit_enter"
    /\ optimizer' = [id |-> fitNo, hist |-> 0]
    /\ it' = 0
    /\ stages' = Append(stages, "fit_begin")
    /\ pc' = "loop"
    /\ UNCHANGED <<probe, fitNo, x_i, x_b, model, pde_loss, bc_loss, needEval, nclos,
                   lastLoss, fitLoss, l2, desc, formula, gridCalls, optSteps,
                   fixCalls>>

\* one iteration short
InRange_mut(i) == i < steps - 1

\* range(steps): the loop body runs for the index i
InRange(i) == i < steps

\* the fixing cell run right after the first fit()
AfterFit_mut(n) == IF n = 1 THEN "fix" ELSE "formula"

\* the cell that follows the n-th fit() cell
AfterFit(n) == IF n = 1 THEN "plot" ELSE "formula"

\* for _ in pbar: the next iteration, or the return of fit()
LoopHead ==
    /\ pc = "loop"
    /\ IF InRange(it)
         THEN /\ pc' = "grid"
              /\ UNCHANGED stages
         ELSE /\ pc' = AfterFit(fitNo)
              /\ stages' = Append(stages, "fit_end")
    /\ UNCHANGED <<probe, fitNo, it, x_i, x_b, model, optimizer, pde_loss, bc_loss,
                   needEval, nclos, lastLoss, fitLoss, l2, desc, formula,
                   gridCalls, optSteps, fixCalls>>

\* 5 in place of 50
GridDue_mut(i) == i % 5 = 0 /\ i < 5

\* if _ % 5 == 0 and _ < 50
GridDue(i) == i % 5 = 0 /\ i < 50

\* model.update_grid_from_samples(x): a new grid, the parameters are refitted
update_grid_from_samples(m, x) == [m EXCEPT !.grid = m.grid + 1]

\* the grid update is moved behind optimizer.step(closure)
GridStep_mut ==
    /\ pc = "grid"
    /\ pc' = "step"
    /\ UNCHANGED <<probe, fitNo, it, x_i, x_b, model, optimizer, pde_loss,
                   bc_loss, needEval, nclos, lastLoss, fitLoss, l2, desc,
                   formula, stages, gridCalls, optSteps, fixCalls>>

\* if _ % 5 == 0 and _ < 50: model.update_grid_from_samples(x_i)
GridStep ==
    /\ pc = "grid"
    /\ IF GridDue(it)
         THEN /\ model' = update_grid_from_samples(model, x_i)
              /\ gridCalls' = gridCalls \cup {<<fitNo, it>>}
         ELSE UNCHANGED <<model, gridCalls>>
    /\ pc' = "step"
    /\ UNCHANGED <<probe, fitNo, it, x_i, x_b, optimizer, pde_loss, bc_loss, needEval,
                   nclos, lastLoss, fitLoss, l2, desc, formula, stages,
                   optSteps, fixCalls>>

\* optimizer.step(closure) is entered: it starts by evaluating closure
StepEnter ==
    /\ pc = "step"
    /\ pc' = "in_step"
    /\ needEval' = TRUE
    /\ nclos' = 0
    /\ UNCHANGED <<probe, fitNo, it, x_i, x_b, model, optimizer, pde_loss, bc_loss,
                   lastLoss, fitLoss, l2, desc, formula, stages, gridCalls,
                   optSteps, fixCalls>>

\* bc_loss is missing from the global statement: the global is not assigned
ClosureCall_mut ==
    /\ pc = "in_step"
    /\ needEval
    /\ \E c \in {closure(model, x_i, x_b)} :
           /\ pde_loss' = c.pde_loss
           /\ model' = [model EXCEPT !.grad = c.grad]
           /\ lastLoss' = c.loss
    /\ needEval' = FALSE
    /\ nclos' = nclos + 1
    /\ UNCHANGED <<probe, pc, fitNo, it, x_i, x_b, optimizer, bc_loss, fitLoss, l2,
                   desc, formula, stages, gridCalls, optSteps, fixCalls>>

\* the global statement is missing: pde_loss and bc_loss are locals of closure
ClosureCall_mut2 ==
    /\ pc = "in_step"
    /\ needEval
    /\ \E c \in {closure(model, x_i, x_b)} :
           /\ model' = [model EXCEPT !.grad = c.grad]
           /\ lastLoss' = c.loss
    /\ needEval' = FALSE
    /\ nclos' = nclos + 1
    /\ UNCHANGED <<probe, pc, fitNo, it, x_i, x_b, optimizer, pde_loss, bc_loss,
                   fitLoss, l2, desc, formula, stages, gridCalls, optSteps,
                   fixCalls>>

\* one invocation of closure by the optimizer
ClosureCall ==
    /\ pc = "in_step"
    /\ needEval
    /\ \E c \in {closure(model, x_i, x_b)} :
           /\ pde_loss' = c.pde_loss
           /\ bc_loss' = c.bc_loss
           /\ model' = [model EXCEPT !.grad = c.grad]
           /\ lastLoss' = c.loss
    /\ needEval' = FALSE
    /\ nclos' = nclos + 1
    /\ UNCHANGED <<probe, pc, fitNo, it, x_i, x_b, optimizer, fitLoss, l2, desc,
                   formula, stages, gridCalls, optSteps, fixCalls>>

\* the line search moves the parameters in place and asks for a new evaluation
OptimizerMove ==
    /\ pc = "in_step"
    /\ ~needEval
    /\ nclos < MaxClosure
    /\ \E p \in ParamSet : model' = [model EXCEPT !.params = p]
    /\ needEval' = TRUE
    /\ UNCHANGED <<probe, pc, fitNo, it, x_i, x_b, optimizer, pde_loss, bc_loss, nclos,
                   lastLoss, fitLoss, l2, desc, formula, stages, gridCalls,
                   optSteps, fixCalls>>

\* optimizer.step returns: the parameters are left at the accepted point
StepReturn ==
    /\ pc = "in_step"
    /\ ~needEval
    /\ nclos >= 1
    /\ \E p \in ParamSet : model' = [model EXCEPT !.params = p]
    /\ optimizer' = [optimizer EXCEPT
                        !.hist = IF @ < history_size THEN @ + 1 ELSE @]
    /\ optSteps' = [optSteps EXCEPT ![fitNo] = @ + 1]
    /\ pc' = "post"
    /\ UNCHANGED <<probe, fitNo, it, x_i, x_b, pde_loss, bc_loss, needEval, nclos,
                   lastLoss, fitLoss, l2, desc, formula, stages, gridCalls,
                   fixCalls>>

\* the rest of the loop body after optimizer.step (lines 113-118)
Post ==
    /\ pc = "post"
    /\ pde_loss # Undefined
    /\ bc_loss # Undefined
    /\ fitLoss' = alphaNum * pde_loss + alphaDen * bc_loss
    /\ l2' = Losses(model, x_i, x_b)[3]
    /\ desc' = IF it % log = 0
                 THEN <<pde_loss, bc_loss, l2'>>
                 ELSE desc
    /\ it' = it + 1
    /\ pc' = "loop"
    /\ UNCHANGED <<probe, fitNo, x_i, x_b, model, optimizer, pde_loss, bc_loss,
                   needEval, nclos, lastLoss, formula, stages, gridCalls,
                   optSteps, fixCalls>>

\* model.plot(beta=10)
Plot ==
    /\ pc = "plot"
    /\ stages' = Append(stages, "plot")
    /\ pc' = "fix"
    /\ UNCHANGED <<probe, fitNo, it, x_i, x_b, model, optimizer, pde_loss, bc_loss,
                   needEval, nclos, lastLoss, fitLoss, l2, desc, formula,
                   gridCalls, optSteps, fixCalls>>

\* the output index of the first loop is i instead of j
FixSeq_mut ==
    [k \in 1..4 |-> <<0, (k - 1) \div 2, (k - 1) \div 2, "x">>] \o
    [k \in 1..2 |-> <<1, k - 1, 0, "sin">>]

\* the calls of the fixing cell, in order: two nested loops, then one loop
FixSeq ==
    [k \in 1..4 |-> <<0, (k - 1) \div 2, (k - 1) % 2, "x">>] \o
    [k \in 1..2 |-> <<1, k - 1, 0, "sin">>]

\* model.fix_symbolic(l, i, j, fun)
fix_symbolic(m, l, i, j, fun) ==
    [m EXCEPT !.sym = [a \in DOMAIN m.sym |->
                          IF a = <<l, i, j>> THEN fun ELSE m.sym[a]]]

FixSymbolic ==
    /\ pc = "fix"
    /\ Len(fixCalls) < Len(FixSeq)
    /\ LET c == FixSeq[Len(fixCalls) + 1]
       IN  /\ model' = fix_symbolic(model, c[1], c[2], c[3], c[4])
           /\ fixCalls' = Append(fixCalls, c)
    /\ stages' = Append(stages, "fix")
    /\ IF Len(fixCalls) + 1 = Len(FixSeq)
         THEN pc' = "fit_enter" /\ fitNo' = 2
         ELSE UNCHANGED <<pc, fitNo>>
    /\ UNCHANGED <<probe, it, x_i, x_b, optimizer, pde_loss, bc_loss, needEval, nclos,
                   lastLoss, fitLoss, l2, desc, formula, gridCalls, optSteps>>

\* formula, var = model.symbolic_formula(floating_digit=5)
SymbolicFormula ==
    /\ pc = "formula"
    /\ formula' = <<model.params, model.sym>>
    /\ stages' = Append(stages, "formula")
    /\ pc' = "done"
    /\ UNCHANGED <<probe, fitNo, it, x_i, x_b, model, optimizer, pde_loss, bc_loss,
                   needEval, nclos, lastLoss, fitLoss, l2, desc, gridCalls,
                   optSteps, fixCalls>>

\* positions at which a call into the library is about to be made
AtExternalCall ==
    \/ pc = "grid" /\ GridDue(it)
    \/ pc \in {"in_step", "post", "plot", "fix", "formula"}

\* a handler that restores the parameters before the exception goes on
Raise_mut ==
    /\ AtExternalCall
    /\ pc' = "raised"
    /\ model' = [model EXCEPT !.params = CHOOSE q \in ParamSet : q.a = 0,
                              !.grad = 0]
    /\ UNCHANGED <<probe, fitNo, it, x_i, x_b, optimizer, pde_loss, bc_loss,
                   needEval, nclos, lastLoss, fitLoss, l2, desc, formula,
                   stages, gridCalls, optSteps, fixCalls>>

\* an external call raises: nothing in the notebook catches it
Raise ==
    /\ AtExternalCall
    /\ pc' = "raised"
    /\ UNCHANGED <<probe, fitNo, it, x_i, x_b, model, optimizer, pde_loss, bc_loss,
                   needEval, nclos, lastLoss, fitLoss, l2, desc, formula,
                   stages, gridCalls, optSteps, fixCalls>>

Returns ==
    \/ Sample
    \/ FitEnter
    \/ LoopHead
    \/ GridStep
    \/ StepEnter
    \/ ClosureCall
    \/ OptimizerMove
    \/ StepReturn
    \/ Post
    \/ Plot
    \/ FixSymbolic
    \/ SymbolicFormula

Next == Returns \/ Raise

Spec == Init /\ [][Next]_vars

TypeOK ==
    /\ pc \in {"cell1", "fit_enter", "loop", "grid", "step", "in_step", "post",
               "plot", "fix", "formula", "done", "raised"}
    /\ fitNo \in 0..2
    /\ it \in 0..steps
    /\ model.params \in ParamSet
    /\ nclos \in 0..MaxClosure

\* ------------------------------------------------ the functions on their own
\* The functions the notebook defines (batch_jacobian, the derivative chain of
\* closure, sol_fun, source_fun, the boundary sampling) and the formula it
\* prints are applied here to inputs of their own, outside the run: probe
\* holds the function, its argument and, once applied, its result.
MaxBatch == 2        \* rows of a batch the derivative chain is applied to
MaxNp    == 3        \* np_i and np_b range over 2..MaxNp

\* --- tensors: a batch is a sequence of rows, T[b][o][i] is entry (b, o, i)
\* x with the entry (b, i) moved by d tenths
Bump(x, b, i, d) == [x EXCEPT ![b][i] = @ + d]

\* T.permute(1, 0, 2)
permute102(T) == [b \in 1..Len(T[1]) |-> [o \in 1..Len(T) |-> T[o][b]]]

\* the callables batch_jacobian is given in closure: model and sol_D1_fun
FuncModel(p) == [name |-> "model", p |-> p]
FuncD1(p)    == [name |-> "sol_D1_fun", p |-> p]

RECURSIVE Call(_, _)

\* the sum runs over dim=1, the outputs of one row
func_sum_mut(func, x) ==
    [b \in 1..Len(Call(func, x)) |->
        SumRange(Call(func, x)[b], 1, Len(Call(func, x)[b]))]

\* _func_sum(x) = func(x).sum(dim=0): one value per output
func_sum(func, x) ==
    [o \in 1..Len(Call(func, x)[1]) |->
        SumRange([b \in 1..Len(x) |-> Call(func, x)[b][o]], 1, Len(x))]

\* autograd.functional.jacobian(_func_sum, x): entry (o, b, i) is the
\* derivative of output o with respect to x[b, i].  The callables are
\* polynomials of degree at most 2 in the entries of x, for which the central
\* difference quotient over +-0.1 is the derivative; 5 = 1 / (2 * 0.1).
jacobian(func, x) ==
    [o \in 1..Len(func_sum(func, x)) |->
        [b \in 1..Len(x) |->
            [i \in 1..Len(x[b]) |->
                5 * (func_sum(func, Bump(x, b, i, 1))[o]
                     - func_sum(func, Bump(x, b, i, -1))[o])]]]

\* batch_jacobian(func, x): shape (Batch, Out, In)
batch_jacobian(func, x) == permute102(jacobian(func, x))

\* func(x) for a batch x, shape (Batch, Out):
\*   model(x), and
\*   sol_D1_fun = lambda x: batch_jacobian(model, x, create_graph=True)[:,0,:]
Call(func, x) ==
    IF func.name = "model"
      THEN [b \in 1..Len(x) |-> <<ModelFwd(func.p, x[b])>>]
      ELSE [b \in 1..Len(x) |-> batch_jacobian(FuncModel(func.p), x)[b][1]]

\* the first row of each matrix in place of its diagonal
diagonal_mut(T) == [b \in 1..Len(T) |-> T[b][1]]

\* torch.diagonal(T, dim1=1, dim2=2): shape (Batch, In)
diagonal(T) == [b \in 1..Len(T) |-> [k \in 1..Len(T[b]) |-> T[b][k][k]]]

\* torch.sum(D, dim=1, keepdim=True): shape (Batch, 1)
sum_dim1_keepdim(D) == [b \in 1..Len(D) |-> <<SumRange(D[b], 1, Len(D[b]))>>]

\* lines 93-97 of closure on a batch x: sol_D1, sol_D2, lap and source
PdeTerms(p, x) ==
    [sol_D1 |-> Call(FuncD1(p), x),
     sol_D2 |-> batch_jacobian(FuncD1(p), x),
     lap    |-> sum_dim1_keepdim(diagonal(batch_jacobian(FuncD1(p), x))),
     source |-> [b \in 1..Len(x) |-> <<source_fun(x[b])>>]]

\* --- sol_fun and source_fun to four decimals
\* Angles are in micro-radians, sines are scaled by SinUnit.  The sine is the
\* Taylor polynomial of degree 9 on [-pi/2, pi/2], evaluated in integers.
SinUnit     == 10000
PiMicro     == 3141593       \* torch.pi
HalfPiMicro == 1570796
TwoPiMicro  == 6283185
Pi2E4       == 98696         \* torch.pi**2, in units of 1/SinUnit

\* the angle a brought into [-pi/2, pi/2] with the same sine
ReduceAngle(a) ==
    IF a % TwoPiMicro > TwoPiMicro - HalfPiMicro
      THEN (a % TwoPiMicro) - TwoPiMicro
      ELSE IF a % TwoPiMicro > HalfPiMicro
        THEN PiMicro - (a % TwoPiMicro)
        ELSE a % TwoPiMicro

\* u (1 - q/6 (1 - q/20 (1 - q/42 (1 - q/72)))), u the angle and q its square
SinPoly(u, q) ==
    (u * (SinUnit
          - ((q * (SinUnit
                   - ((q * (SinUnit
                            - ((q * (SinUnit - q \div 72)) \div SinUnit) \div 42))
                      \div SinUnit) \div 20))
             \div SinUnit) \div 6))
    \div SinUnit

\* torch.sin of an angle in micro-radians, scaled by SinUnit
Sin4(a) ==
    SinPoly(ReduceAngle(a) \div 100,
            ((ReduceAngle(a) \div 100) * (ReduceAngle(a) \div 100)) \div SinUnit)

\* sol_fun at one row x (in tenths), scaled by SinUnit^2
sol_fun4(x) ==
    Sin4((PiMicro * x[1]) \div 10) * Sin4((PiMicro * x[2]) \div 10)

\* the factor 2 is missing
source_fun4_mut(x) ==
    ((-1 * Pi2E4)
        * ((Sin4((PiMicro * x[1]) \div 10) * Sin4((PiMicro * x[2]) \div 10))
            \div SinUnit))
    \div SinUnit

\* source_fun at one row x (in tenths), scaled by SinUnit
source_fun4(x) ==
    ((-2 * Pi2E4)
        * ((Sin4((PiMicro * x[1]) \div 10) * Sin4((PiMicro * x[2]) \div 10))
            \div SinUnit))
    \div SinUnit

\* --- the printed formula
\* the first term has the sign of the second one's x_1 coefficient
formula_out_mut ==
    <<[amp |-> 5, k1 |-> 314159, k2 |-> 314159, ph |-> 785398],
      [amp |-> 5, k1 |-> 314159, k2 |-> 314159, ph |-> 471239]>>

\* the output of the last cell: 0.5*sin(-3.14159*x_1 + 3.14159*x_2 + 7.85398)
\* + 0.5*sin(3.14159*x_1 + 3.14159*x_2 + 4.71239); amp in tenths, k1, k2 and
\* ph in units of 1e-5
formula_out ==
    <<[amp |-> 5, k1 |-> -314159, k2 |-> 314159, ph |-> 785398],
      [amp |-> 5, k1 |-> 314159, k2 |-> 314159, ph |-> 471239]>>

\* the value of a sum f of sine terms at the point x (in tenths), scaled by
\* SinUnit^2
EvalFormula(f, x) ==
    SumRange([k \in 1..Len(f) |->
                 f[k].amp * (SinUnit \div 10)
                     * Sin4(f[k].k1 * x[1] + f[k].k2 * x[2] + f[k].ph * 10)],
             1, Len(f))

\* --- the boundary sample for other values of np_i and np_b (lines 60-76):
\* the four edges xb1..xb4
BoundaryEdges(ni, nb) ==
    LET xm == linspace(rangeLo, rangeHi, ni)
        ym == linspace(rangeLo, rangeHi, ni)
        Xm == [i \in 1..Len(xm) |-> [j \in 1..Len(ym) |-> xm[i]]]
        Ym == [i \in 1..Len(xm) |-> [j \in 1..Len(ym) |-> ym[j]]]
    IN  <<helper(Xm[1], Ym[1]),
          helper(Xm[Len(Xm)], Ym[1]),
          helper(Col(Xm, 1), Col(Ym, 1)),
          helper(Col(Xm, 1), Col(Ym, Len(Ym[1])))>>

\* --- inputs
\* rows the derivative chain is applied to
ProbeRows == {<<-10, -10>>, <<-3, 4>>, <<4, -3>>, <<0, 7>>}

\* batches of 1..MaxBatch rows
ProbeBatches == UNION {[1..n -> ProbeRows] : n \in 1..MaxBatch}

\* the points of the domain [-1, 1]^2 on the mesh of tenths
DomainPoints == {<<x, y>> : x \in rangeLo..rangeHi, y \in rangeLo..rangeHi}

ToApply(op, arg) == [op |-> op, arg |-> arg, done |-> FALSE, out |-> <<>>]

FunInit ==
    /\ InitRun
    /\ \/ \E p \in ParamSet : \E x \in ProbeBatches :
             \E f \in {FuncModel(p), FuncD1(p)} :
                probe = ToApply("batch_jacobian", [func |-> f, x |-> x])
       \/ \E p \in ParamSet : \E x \in ProbeBatches :
             probe = ToApply("pde_terms", [p |-> p, x |-> x])
       \/ \E x \in DomainPoints : probe = ToApply("source_fun", x)
       \/ \E x \in DomainPoints : probe = ToApply("formula", x)
       \/ \E ni \in 2..MaxNp : \E nb \in 2..MaxNp :
             probe = ToApply("boundary", [np_i |-> ni, np_b |-> nb])

RunIdle ==
    UNCHANGED <<pc, fitNo, it, x_i, x_b, model, optimizer, pde_loss, bc_loss,
                needEval, nclos, lastLoss, fitLoss, l2, desc, formula, stages,
                gridCalls, optSteps, fixCalls>>

ApplyBatchJacobian ==
    /\ probe.op = "batch_jacobian"
    /\ ~probe.done
    /\ probe' = [probe EXCEPT
                    !.done = TRUE,
                    !.out = batch_jacobian(probe.arg.func, probe.arg.x)]
    /\ RunIdle

ApplyPdeTerms ==
    /\ probe.op = "pde_terms"
    /\ ~probe.done
    /\ probe' = [probe EXCEPT
                    !.done = TRUE,
                    !.out = PdeTerms(probe.arg.p, probe.arg.x)]
    /\ RunIdle

\* source_fun at x, and sol_fun at x and at its four neighbours at 0.1
ApplySourceFun ==
    /\ probe.op = "source_fun"
    /\ ~probe.done
    /\ probe' = [probe EXCEPT
                    !.done = TRUE,
                    !.out = [source |-> source_fun4(probe.arg),
                             sol    |-> sol_fun4(probe.arg),
                             east   |-> sol_fun4(<<probe.arg[1] + 1, probe.arg[2]>>),
                             west   |-> sol_fun4(<<probe.arg[1] - 1, probe.arg[2]>>),
                             north  |-> sol_fun4(<<probe.arg[1], probe.arg[2] + 1>>),
                             south  |-> sol_fun4(<<probe.arg[1], probe.arg[2] - 1>>)]]
    /\ RunIdle

ApplyFormula ==
    /\ probe.op = "formula"
    /\ ~probe.done
    /\ probe' = [probe EXCEPT
                    !.done = TRUE,
                    !.out = [value |-> EvalFormula(formula_out, probe.arg),
                             sol   |-> sol_fun4(probe.arg)]]
    /\ RunIdle

ApplyBoundary ==
    /\ probe.op = "boundary"
    /\ ~probe.done
    /\ probe' = [probe EXCEPT
                    !.done = TRUE,
                    !.out = BoundaryEdges(probe.arg.np_i, probe.arg.np_b)]
    /\ RunIdle

FunNext ==
    \/ ApplyBatchJacobian
    \/ ApplyPdeTerms
    \/ ApplySourceFun
    \/ ApplyFormula
    \/ ApplyBoundary

FunSpec == FunInit /\ [][FunNext]_vars

\* ================================================================== claims
\* number of fit() calls that have returned
FitsReturned == Cardinality({k \in DOMAIN stages : stages[k] = "fit_end"})

\* fit() number f has gone past the grid test of iteration i
GridPassed(f, i) ==
    \/ FitsReturned >= f
    \/ /\ fitNo = f
       /\ pc \in {"loop", "grid", "step", "in_step", "post"}
       /\ \/ it > i
          \/ it = i /\ pc \in {"step", "in_step", "post"}

\* C1: in each fit() the grid is updated at iteration i exactly when i is a
\* multiple of 5 below 50, i.e. at iterations 0, 5, 10 and 15: 4 updates per
\* fit() and 8 over the whole run.
Thm_C1 ==
    /\ \A c \in gridCalls :
          /\ c[1] \in 1..2
          /\ c[2] \in {0, 5, 10, 15}
          /\ c[1] < fitNo \/ (c[1] = fitNo /\ c[2] <= it)
    /\ \A f \in 1..2 : \A i \in 0..19 :
          GridPassed(f, i) =>
              (<<f, i>> \in gridCalls <=> (i % 5 = 0 /\ i < 50))
    /\ \A f \in 1..2 :
          FitsReturned >= f =>
              {c[2] : c \in {d \in gridCalls : d[1] = f}} = {0, 5, 10, 15}
    /\ pc = "done" => Cardinality(gridCalls) = 8

Wit_C1 == pc = "done" /\ <<1, 0>> \in gridCalls /\ <<2, 15>> \in gridCalls

\* longest possible remainder of one loop iteration, in steps of the model
IterLen == 2 * MaxClosure + 4
IterRank ==
    CASE pc = "loop" -> IterLen
      [] pc = "grid" -> IterLen - 1
      [] pc = "step" -> IterLen - 2
      [] pc = "in_step" ->
            2 * (MaxClosure - nclos) + (IF needEval THEN 1 ELSE 2)
      [] pc = "post" -> 1
      [] OTHER -> 0

\* longest possible remainder of the running fit()
FitLen == 20 * IterLen + 2
FitRank ==
    CASE pc = "fit_enter" -> FitLen
      [] pc = "loop" -> (20 - it) * IterLen + 1
      [] pc \in {"grid", "step", "in_step", "post"} ->
            (20 - it - 1) * IterLen + 1 + IterRank
      [] OTHER -> 0

\* longest possible remainder of the run
Rank ==
    CASE pc = "cell1" -> 2 * FitLen + 9
      [] pc \in {"fit_enter", "loop", "grid", "step", "in_step", "post"} ->
            IF fitNo = 1 THEN FitLen + 8 + FitRank ELSE 1 + FitRank
      [] pc = "plot" -> FitLen + 8
      [] pc = "fix" -> FitLen + 1 + (6 - Len(fixCalls))
      [] pc = "formula" -> 1
      [] OTHER -> 0

\* the running call or statement can complete and hand over to the next one
CanGoOn ==
    /\ pc = "in_step" => needEval \/ nclos >= 1
    /\ pc = "post" => pde_loss # Undefined /\ bc_loss # Undefined
    /\ pc = "fix" => Len(fixCalls) < 6
    /\ pc \in {"loop", "grid", "step", "in_step", "post"} => fitNo \in 1..2

\* C2: each fit() makes exactly 20 calls of optimizer.step, one per loop
\* iteration, whatever the losses are, and returns; the run makes 40
\* optimizer steps and ends: as long as the calls return it can always go on,
\* and every step brings it nearer to its end.
Thm_C2 ==
    /\ [](pc \in {"loop", "grid", "step", "in_step"} => optSteps[fitNo] = it)
    /\ [](\A f \in 1..2 : FitsReturned >= f => optSteps[f] = 20)
    /\ [](pc = "done" => optSteps[1] + optSteps[2] = 40)
    /\ [](pc \notin {"done", "raised"} => Rank > 0 /\ CanGoOn)
    /\ [][Rank' < Rank]_vars

Wit_C2 == pc = "done" /\ optSteps[1] = 20 /\ optSteps[2] = 20

\* the stages of a complete run, in order
StageOrder ==
    <<"sample", "fit_begin", "fit_end", "plot",
      "fix", "fix", "fix", "fix", "fix", "fix",
      "fit_begin", "fit_end", "formula">>

\* C3: the stages run in one fixed order: sampling, first fit(), plot, the six
\* fix_symbolic calls, second fit(), symbolic_formula.  No fix_symbolic call
\* precedes the end of the first fit(), the second fit() starts after all six
\* fix_symbolic calls, and symbolic_formula follows the end of the second fit().
Thm_C3 ==
    /\ Len(stages) <= Len(StageOrder)
    /\ \A k \in DOMAIN stages : stages[k] = StageOrder[k]
    /\ optSteps[1] > 0 \/ gridCalls # {} => Len(x_i) > 0 /\ Len(x_b) > 0
    /\ Len(fixCalls) > 0 => optSteps[1] = 20 /\ FitsReturned >= 1
    /\ optimizer.id = 2 \/ optSteps[2] > 0 => Len(fixCalls) = 6
    /\ formula # <<>> => optSteps[2] = 20 /\ FitsReturned = 2

Wit_C3 == pc = "done" /\ stages = StageOrder /\ formula # <<>>

\* a step of the run that is one invocation of closure
ClosureInvoked == pc = "in_step" /\ nclos' = nclos + 1

\* C4 as stated: closure writes nothing but the model's parameter state
Cex_C4 ==
    [][ClosureInvoked =>
          UNCHANGED <<pde_loss, bc_loss, x_i, x_b, it, fitNo, optimizer,
                      fitLoss, l2, desc, formula>>]_vars

\* C4: the state shared across the run is the model (parameters and their
\* gradients, grid, activations) and the two globals pde_loss and bc_loss:
\* each closure invocation assigns both globals and the gradients and nothing
\* else that fit() reads, and fit() reads the globals after optimizer.step.
Thm_C4 ==
    [][/\ ClosureInvoked =>
            /\ UNCHANGED <<x_i, x_b, it, fitNo, optimizer, fitLoss, l2, desc,
                           formula>>
            /\ model'.params = model.params
            /\ model'.grid = model.grid
            /\ model'.sym = model.sym
            /\ pde_loss' # Undefined
            /\ bc_loss' # Undefined
       /\ pc = "post" /\ pc' = "loop" =>
            /\ fitLoss' = 1 * pde_loss + 10 * bc_loss
            /\ desc'[1] = pde_loss
            /\ desc'[2] = bc_loss
            /\ UNCHANGED <<pde_loss, bc_loss, model>>]_vars

Wit_C4 ==
    /\ pc = "loop"
    /\ fitNo = 2
    /\ it > 0
    /\ pde_loss # Undefined
    /\ fitLoss = 1 * pde_loss + 10 * bc_loss

\* closure has just returned and the optimizer has not moved the parameters
AfterClosure == pc = "in_step" /\ ~needEval

\* v is the mean (rounded down) of a column of n values that add up to total
IsMean(v, total, n) == v * n <= total /\ total < (v + 1) * n

\* C5: every closure invocation returns alpha * pde_loss + bc_loss with
\* alpha = 0.1, pde_loss the mean over x_i of (laplacian - source)^2 and bc_loss
\* the mean over x_b of (model output - sol_fun)^2, in both fit() calls.
Thm_C5 ==
    AfterClosure =>
        /\ lastLoss = 1 * pde_loss + 10 * bc_loss
        /\ IsMean(pde_loss,
                  SumRange([r \in 1..441 |->
                               (lap(model.params, x_i[r]) - source_fun(x_i[r])) ^ 2],
                           1, 441),
                  441)
        /\ IsMean(bc_loss,
                  SumRange([r \in 1..84 |->
                               (ModelFwd(model.params, x_b[r]) - sol_fun(x_b[r])) ^ 2],
                           1, 84),
                  84)

Wit_C5 == AfterClosure /\ fitNo = 2 /\ it = 19 /\ nclos = 2 /\ pde_loss > 0

\* the points of one edge of the mesh, as a set
EdgeX(x) == {<<x, y>> : y \in -10..10}
EdgeY(y) == {<<x, y>> : x \in -10..10}
Rows(s, lo, hi) == {s[k] : k \in lo..hi}

\* C6: x_b is the four edges x = -1, x = 1, y = -1, y = 1 of the mesh, in this
\* order, 21 points each: 84 rows, every row on the boundary, every corner
\* exactly twice.  (x_b is empty until it is assigned.)
Thm_C6 ==
    /\ [](pc # "cell1" => Len(x_b) = 84)
    /\ [][x_b' # x_b =>
            /\ Len(x_b') = 84
            /\ Rows(x_b', 1, 21) = EdgeX(-10)
            /\ Rows(x_b', 22, 42) = EdgeX(10)
            /\ Rows(x_b', 43, 63) = EdgeY(-10)
            /\ Rows(x_b', 64, 84) = EdgeY(10)
            /\ \A k \in 1..84 :
                  x_b'[k][1] \in {-10, 10} \/ x_b'[k][2] \in {-10, 10}
            /\ \A c \in {<<-10, -10>>, <<-10, 10>>, <<10, -10>>, <<10, 10>>} :
                  Cardinality({k \in 1..84 : x_b'[k] = c}) = 2]_vars

Wit_C6 == Len(x_b) = 84 /\ x_b[1] = <<-10, -10>> /\ x_b[84] = <<10, 10>>

\* C7: the target of the boundary loss, sol_fun(x_b), is 0 at every boundary
\* point, so bc_loss is the mean of the squared model outputs on the boundary.
Thm_C7 ==
    /\ [][x_b' # x_b => \A k \in 1..Len(x_b') : sol_fun(x_b'[k]) = 0]_vars
    /\ [](AfterClosure =>
            /\ Len(x_b) = 84
            /\ IsMean(bc_loss,
                      SumRange([r \in 1..84 |->
                                   ModelFwd(model.params, x_b[r]) ^ 2], 1, 84),
                      84))

Wit_C7 == AfterClosure /\ Len(x_b) = 84 /\ bc_loss > 0

\* C8: when the second fit() starts, and from then on, every activation of the
\* [2,2,1] network is symbolic: the four of the first layer are 'x', the two
\* of the second layer are 'sin', each fixed by exactly one fix_symbolic call.
Thm_C8 ==
    fitNo = 2 =>
        /\ DOMAIN model.sym =
              {<<0, 0, 0>>, <<0, 0, 1>>, <<0, 1, 0>>, <<0, 1, 1>>,
               <<1, 0, 0>>, <<1, 1, 0>>}
        /\ \A i \in 0..1 : \A j \in 0..1 : model.sym[<<0, i, j>>] = "x"
        /\ \A i \in 0..1 : model.sym[<<1, i, 0>>] = "sin"
        /\ \A a \in DOMAIN model.sym :
              Cardinality({k \in DOMAIN fixCalls :
                              <<fixCalls[k][1], fixCalls[k][2], fixCalls[k][3]>> = a}) = 1
        /\ Len(fixCalls) = 6

Wit_C8 ==
    /\ fitNo = 2
    /\ pc = "fit_enter"
    /\ model.sym[<<0, 1, 0>>] = "x"
    /\ model.sym[<<1, 1, 0>>] = "sin"

\* C9: x_i is drawn once, has 441 rows of 2 coordinates in [-1, 1], and is
\* never assigned or modified afterwards.
Thm_C9 ==
    /\ [](pc # "cell1" => Len(x_i) = 441)
    /\ [][x_i' # x_i =>
            /\ x_i = <<>>
            /\ Len(x_i') = 441
            /\ \A r \in 1..441 :
                  /\ Len(x_i'[r]) = 2
                  /\ x_i'[r][1] \in -10..10
                  /\ x_i'[r][2] \in -10..10]_vars

Wit_C9 == pc = "done" /\ Len(x_i) = 441 /\ optSteps[2] = 20

\* C10: an exception raised by an external call is not caught: the run stops
\* where it is, the rest of the loop and of the notebook is not executed, and
\* nothing is retried, rolled back or replaced.
Thm_C10 ==
    [][/\ pc # "raised"
       /\ pc' = "raised" =>
            UNCHANGED <<fitNo, it, x_i, x_b, model, optimizer, pde_loss,
                        bc_loss, needEval, nclos, lastLoss, fitLoss, l2, desc,
                        formula, stages, gridCalls, optSteps, fixCalls>>]_vars

Wit_C10 ==
    /\ pc = "raised"
    /\ fitNo = 1
    /\ it = 3
    /\ optSteps[1] = 3
    /\ needEval
    /\ nclos = 1

\* C16: when fit() reads the globals pde_loss and bc_loss after
\* optimizer.step(closure), closure has been invoked at least once during that
\* step (also in iteration 0 of the first fit()), both globals hold values,
\* and these are the values of the latest invocation: only a closure
\* invocation assigns them, each invocation assigns both from the model and
\* the samples as they are, and the loss returned by the latest invocation is
\* the loss fit() forms from the globals.
Thm_C16 ==
    /\ [](pc = "post" =>
            /\ nclos >= 1
            /\ pde_loss # Undefined
            /\ bc_loss # Undefined
            /\ lastLoss = 1 * pde_loss + 10 * bc_loss)
    /\ [][/\ pc = "step" => nclos' = 0 /\ needEval'
          /\ pde_loss' # pde_loss \/ bc_loss' # bc_loss => ClosureInvoked
          /\ ClosureInvoked =>
                /\ pde_loss' = Losses(model, x_i, x_b)[1]
                /\ bc_loss' = Losses(model, x_i, x_b)[2]
                /\ lastLoss' = 1 * pde_loss' + 10 * bc_loss'
          /\ pc = "post" /\ pc' = "loop" =>
                /\ fitLoss' = lastLoss
                /\ desc' = <<pde_loss, bc_loss, l2'>>]_vars

Wit_C16 ==
    /\ pc = "post"
    /\ fitNo = 1
    /\ it = 0
    /\ nclos = 2
    /\ pde_loss # Undefined

\* C17: in an iteration where the grid update is due (0, 5, 10, 15) the update
\* is made before that iteration's optimizer.step: never inside a step, and
\* once a step is entered the update of its iteration has been made.  The
\* first change of the model in each fit() is a grid update, and the one of
\* the second fit() finds all six activations already fixed.
Thm_C17 ==
    /\ [](pc \in {"step", "in_step", "post"} /\ it % 5 = 0 /\ it < 50 =>
            <<fitNo, it>> \in gridCalls)
    /\ [][/\ model'.grid # model.grid =>
                /\ pc = "grid"
                /\ pc' = "step"
                /\ it \in {0, 5, 10, 15}
                /\ <<fitNo, it>> \notin gridCalls
                /\ gridCalls' = gridCalls \cup {<<fitNo, it>>}
                /\ nclos' = nclos
                /\ optSteps[fitNo] = it
                /\ fitNo = 2 =>
                      /\ Len(fixCalls) = 6
                      /\ \A a \in DOMAIN model.sym : model.sym[a] # "numeric"
          /\ pc = "in_step" => model'.grid = model.grid
          /\ model' # model /\ fitNo \in 1..2 /\ <<fitNo, 0>> \notin gridCalls =>
                model'.grid # model.grid /\ optSteps[fitNo] = 0]_vars

Wit_C17 ==
    /\ pc = "in_step"
    /\ fitNo = 2
    /\ it = 0
    /\ nclos = 0
    /\ gridCalls = {<<1, 0>>, <<1, 5>>, <<1, 10>>, <<1, 15>>, <<2, 0>>}

\* C18: every closure invocation resets the gradients before backward(), so
\* the gradients held after an invocation are those of the loss it evaluated,
\* whatever was held before and however many invocations the step makes.
Thm_C18 ==
    /\ [][ClosureInvoked =>
            model'.grad = GradOf(model.params, lastLoss')]_vars
    /\ [](AfterClosure => model.grad = GradOf(model.params, lastLoss))

Wit_C18 ==
    /\ AfterClosure
    /\ nclos = 2
    /\ fitNo = 1
    /\ it = 1
    /\ model.grad = GradOf(model.params, lastLoss)

\* C19: each fit() builds its own optimizer with an empty history: the
\* optimizer in use is the one of the running fit() and holds no more history
\* than the steps of this fit(); building it changes nothing of the model, so
\* the second fit() starts from the model the fixing cell left.
Thm_C19 ==
    /\ [][pc = "fit_enter" =>
            /\ optimizer'.id = fitNo
            /\ optimizer'.id # optimizer.id
            /\ optimizer'.hist = 0
            /\ model' = model
            /\ fitNo = 2 =>
                  /\ optimizer.hist = 10
                  /\ Len(fixCalls) = 6
                  /\ model.grid = 4]_vars
    /\ [](pc \in {"loop", "grid", "step", "in_step", "post"} =>
            /\ optimizer.id = fitNo
            /\ optimizer.hist <= optSteps[fitNo]
            /\ optimizer.hist <= 10)
    /\ [][pc = "fix" /\ pc' = "fit_enter" => fitNo' = 2 /\ model'.sym # model.sym]_vars

Wit_C19 ==
    /\ pc = "loop"
    /\ fitNo = 2
    /\ it = 0
    /\ optimizer = [id |-> 2, hist |-> 0]
    /\ model.grid = 4

\* ------------------------------------------ claims on the functions alone
Abs(v) == IF v < 0 THEN -v ELSE v

\* the function op has been applied to its argument
Applied(op) == probe.op = op /\ probe.done

\* derivative of output o of func at the single row r with respect to r[i]:
\* func is applied to the batch that holds r alone
RowDeriv(func, r, o, i) ==
    5 * (Call(func, Bump(<<r>>, 1, i, 1))[1][o]
         - Call(func, Bump(<<r>>, 1, i, -1))[1][o])

\* C12: at every point of the domain (on the mesh of tenths) the printed
\* formula and sol_fun = sin(pi x_1) sin(pi x_2) have the same value, within
\* 5e-4, twice the accuracy of the sine used here.
Thm_C12 ==
    Applied("formula") =>
        Abs(probe.out.value - probe.out.sol) <= 5 * SinUnit

Wit_C12 ==
    /\ Applied("formula")
    /\ probe.arg = <<5, -5>>
    /\ probe.out.sol < -9990 * SinUnit
    /\ probe.out.value < -9990 * SinUnit

\* C13 as stated: each of the four edges of the boundary sample has np_b points
Cex_C13 ==
    Applied("boundary") =>
        \A e \in 1..4 : Len(probe.out[e]) = probe.arg.np_b

\* C14: lap has one row of one value per sample, like source, and lap[b] is
\* sol_D2[b,0,0] + sol_D2[b,1,1], where sol_D2[b,i,j] is the derivative with
\* respect to x[b,j] of the i-th first derivative of the model output at
\* sample b; the mixed derivatives sol_D2[b,0,1] and sol_D2[b,1,0] are not
\* part of it.  The per-row Laplacian of the loss is this value.
Thm_C14 ==
    Applied("pde_terms") =>
        /\ Len(probe.out.lap) = Len(probe.arg.x)
        /\ Len(probe.out.source) = Len(probe.arg.x)
        /\ Len(probe.out.sol_D2) = Len(probe.arg.x)
        /\ Len(probe.out.sol_D1) = Len(probe.arg.x)
        /\ \A b \in 1..Len(probe.arg.x) :
              /\ Len(probe.out.lap[b]) = 1
              /\ Len(probe.out.source[b]) = 1
              /\ Len(probe.out.sol_D1[b]) = 2
              /\ Len(probe.out.sol_D2[b]) = 2
              /\ \A i \in 1..2 :
                    /\ Len(probe.out.sol_D2[b][i]) = 2
                    /\ probe.out.sol_D1[b][i] =
                          RowDeriv(FuncModel(probe.arg.p), probe.arg.x[b], 1, i)
                    /\ \A j \in 1..2 :
                          probe.out.sol_D2[b][i][j] =
                              RowDeriv(FuncD1(probe.arg.p), probe.arg.x[b], i, j)
              /\ probe.out.lap[b][1] =
                    probe.out.sol_D2[b][1][1] + probe.out.sol_D2[b][2][2]
              /\ probe.out.sol_D2[b] = sol_D2(probe.arg.p, probe.arg.x[b])
              /\ probe.out.lap[b][1] = lap(probe.arg.p, probe.arg.x[b])

Wit_C14 ==
    /\ Applied("pde_terms")
    /\ Len(probe.arg.x) = 2
    /\ probe.arg.x[1] # probe.arg.x[2]
    /\ probe.out.sol_D2[2][1][2] # 0
    /\ probe.out.sol_D2[2][2][1] # 0
    /\ probe.out.lap[2][1] = 200

\* C15: at every point x of the mesh, source_fun(x) is -2 pi^2 sol_fun(x), and
\* it is the Laplacian of sol_fun at x: the second difference quotient of
\* sol_fun over 0.1 in both coordinates differs from source_fun(x) by at most
\* 0.3 (source_fun is up to 19.74).  So lap - source vanishes, within this
\* accuracy, when the model is sol_fun.
Thm_C15 ==
    Applied("source_fun") =>
        /\ Abs(probe.out.source * SinUnit
               + 2 * Pi2E4 * (probe.out.sol \div SinUnit)) < SinUnit
        /\ Abs((probe.out.east + probe.out.west + probe.out.north
                + probe.out.south - 4 * probe.out.sol) \div 100
               - probe.out.source) <= 3 * (SinUnit \div 10)

Wit_C15 ==
    /\ Applied("source_fun")
    /\ probe.arg = <<5, 5>>
    /\ probe.out.source < -19 * SinUnit
    /\ probe.out.sol > 9990 * SinUnit

\* C20: for the callables of closure, which map each row on its own,
\* batch_jacobian(func, x) has shape (Batch, Out, In) and its entry (b, o, i) is
\* the derivative of output o of func at row b with respect to x[b, i], as
\* obtained from that row alone: nothing of the other rows enters.  For model
\* these are the first derivatives, for sol_D1_fun the second derivatives.
Thm_C20 ==
    Applied("batch_jacobian") =>
        /\ Len(probe.out) = Len(probe.arg.x)
        /\ \A b \in 1..Len(probe.arg.x) :
              /\ Len(probe.out[b]) = Len(Call(probe.arg.func, probe.arg.x)[b])
              /\ Len(probe.out[b]) =
                    (IF probe.arg.func.name = "model" THEN 1 ELSE 2)
              /\ \A o \in 1..Len(probe.out[b]) :
                    /\ Len(probe.out[b][o]) = Len(probe.arg.x[b])
                    /\ \A i \in 1..Len(probe.arg.x[b]) :
                          probe.out[b][o][i] =
                              RowDeriv(probe.arg.func, probe.arg.x[b], o, i)
              /\ probe.arg.func.name = "model" =>
                    probe.out[b][1] =
                        sol_D1_fun(probe.arg.func.p, probe.arg.x[b])
              /\ probe.arg.func.name = "sol_D1_fun" =>
                    probe.out[b] = sol_D2(probe.arg.func.p, probe.arg.x[b])

Wit_C20 ==
    /\ Applied("batch_jacobian")
    /\ probe.arg.func.name = "model"
    /\ Len(probe.arg.x) = 2
    /\ probe.out[1] # probe.out[2]
    /\ probe.out[2][1][1] # 0

====
